---- MODULE Spec2Model ----
(***************************************************************************)
(* Model of the orbital state engine of space-debris-monitor:              *)
(*   - server/tle_store.py  TLEStore (clear, load_from_text, get,          *)
(*                          list_objects)                                  *)
(*   - server/main.py       load_tle, list_objects, api_propagate          *)
(*   - server/propagate.py  propagate_positions                            *)
(* Strings are sequences of one-character strings, so that startswith,     *)
(* strip, splitlines and the catalog-number regular expression are         *)
(* computed character by character as the Python code computes them.       *)
(***************************************************************************)
EXTENDS Integers, Sequences, FiniteSets, TLC

VARIABLES
    by_id,      \* TLEStore._by_id: the dict, as the sequence of its values in dict order
    thr,        \* per request thread of load_tle: position, request and locals
    loads,      \* number of load requests accepted so far (bounded by MaxLoads)
    obs,        \* the response of the query handled by the last step, or NoObs
    ptext,      \* ParseSpec: the text handed to load_from_text
    pblocks,    \* ParseSpec: the blocks ptext was written from
    pres,       \* ParseSpec: load_from_text's return value, once it has run
    prop_in,    \* PropSpec: arguments of propagate_positions
    prop_out,   \* PropSpec: the outcome of propagate_positions, once it has run
    flux_in,    \* FluxSpec: the rows of the flux table and the arguments of flux_ordem_like
    flux_out,   \* FluxSpec: the outcome of flux_ordem_like, once it has run
    prox_in,    \* ProxSpec: arguments of filter_debris_by_proximity
    prox_out,   \* ProxSpec: its return value and the caller's list, once it has run
    flux_cache, \* CacheSpec: what lru_cache holds for _load_flux_table
    file_reads, \* CacheSpec: number of times the flux file has been opened and read
    fthr,       \* CacheSpec: position of each request thread that needs the flux rows
    flux_file,  \* CacheSpec: whether data/ordem_flux_sample.csv can be read
    risk_in,    \* RiskSpec: arguments of annual_collision_probability
    risk_out    \* RiskSpec: its outcome and the levels the handlers derive from it

\* the variables of the risk engine, which the store and the propagator
\* never touch
riskVars == <<flux_in, flux_out, prox_in, prox_out, flux_cache, file_reads, fthr,
              flux_file, risk_in, risk_out>>

\* the variables of the store and of the propagator, which the risk engine
\* never touches
storeVars == <<by_id, thr, loads, obs, ptext, pblocks, pres, prop_in, prop_out>>

vars == <<by_id, thr, loads, obs, ptext, pblocks, pres, prop_in, prop_out,
          flux_in, flux_out, prox_in, prox_out, flux_cache, file_reads, fthr,
          flux_file, risk_in, risk_out>>

(***************************************************************************)
(* Bounds of the model.                                                    *)
(***************************************************************************)
MaxBlocks == 3      \* blocks per text in ParseSpec
MaxSvcBlocks == 2   \* blocks per text fetched by a load request
MaxLoads == 2       \* load requests per behaviour
MaxLimit == 2       \* list_objects limits range over -MaxLimit..MaxLimit
MaxMinutes == 2     \* propagate: minutes in 1..MaxMinutes
MaxStep == 130      \* propagate: step_seconds in 1..MaxStep

(***************************************************************************)
(* Characters and strings.                                                 *)
(***************************************************************************)
\* _extract_norad's None: \d+ never yields a negative number
NoNorad == -1

Digits == {"0", "1", "2", "3", "4", "5", "6", "7", "8", "9"}

DigitVal(c) ==
    CASE c = "0" -> 0 [] c = "1" -> 1 [] c = "2" -> 2 [] c = "3" -> 3
      [] c = "4" -> 4 [] c = "5" -> 5 [] c = "6" -> 6 [] c = "7" -> 7
      [] c = "8" -> 8 [] c = "9" -> 9

\* max(a, b)
Min(a, b) == IF a <= b THEN a ELSE b

Max(a, b) == IF a >= b THEN a ELSE b

\* str.strip() and the regex class \s: whitespace characters
IsSpace(c) == c \in {" ", "\t", "\r", "\n"}

\* str.splitlines(): line boundaries
IsLineBreak(c) == c \in {"\n", "\r"}

RECURSIVE LStrip(_)
LStrip(s) ==
    IF s = <<>> THEN s
    ELSE IF IsSpace(Head(s)) THEN LStrip(Tail(s)) ELSE s

RECURSIVE RStrip(_)
RStrip(s) ==
    IF s = <<>> THEN s
    ELSE IF IsSpace(s[Len(s)]) THEN RStrip(SubSeq(s, 1, Len(s) - 1)) ELSE s

\* l.strip()
strip(s) == RStrip(LStrip(s))

\* tle_text.splitlines(), up to empty lines (which line 23 drops): "\r\n"
\* counts as one boundary in Python and as two here, with an empty line between
RECURSIVE SplitFrom(_, _, _)
SplitFrom(text, k, cur) ==
    IF k > Len(text) THEN (IF cur = <<>> THEN <<>> ELSE <<cur>>)
    ELSE IF IsLineBreak(text[k]) THEN <<cur>> \o SplitFrom(text, k + 1, <<>>)
    ELSE SplitFrom(text, k + 1, Append(cur, text[k]))

splitlines(text) == SplitFrom(text, 1, <<>>)

RECURSIVE StripAll(_)
StripAll(ls) ==
    IF ls = <<>> THEN <<>>
    ELSE LET l == strip(Head(ls))
         IN (IF l = <<>> THEN <<>> ELSE <<l>>) \o StripAll(Tail(ls))

\* lines = [l.strip() for l in tle_text.splitlines() if l.strip()]
CleanLines(text) == StripAll(splitlines(text))

\* s.startswith(p)
startswith(s, p) == Len(s) >= Len(p) /\ SubSeq(s, 1, Len(p)) = p

P1 == <<"1", " ">>
P2 == <<"2", " ">>
UNKNOWN == <<"U", "N", "K", "N", "O", "W", "N">>

\* length of the longest run of characters satisfying the class, from position k
RECURSIVE SpaceRun(_, _)
SpaceRun(s, k) ==
    IF k > Len(s) \/ ~IsSpace(s[k]) THEN 0 ELSE 1 + SpaceRun(s, k + 1)

RECURSIVE DigitRun(_, _)
DigitRun(s, k) ==
    IF k > Len(s) \/ s[k] \notin Digits THEN 0 ELSE 1 + DigitRun(s, k + 1)

\* int(digits)
RECURSIVE ToInt(_)
ToInt(ds) ==
    IF ds = <<>> THEN 0
    ELSE 10 * ToInt(SubSeq(ds, 1, Len(ds) - 1)) + DigitVal(ds[Len(ds)])

\* mutant of extract_norad: the group is (\d), one digit, instead of (\d+)
extract_norad_one_digit(line1) ==
    IF Len(line1) = 0 \/ line1[1] # "1" THEN NoNorad
    ELSE LET ws == SpaceRun(line1, 2)
             nd == DigitRun(line1, 2 + ws)
         IN IF ws = 0 \/ nd = 0 THEN NoNorad
            ELSE ToInt(SubSeq(line1, 2 + ws, 2 + ws))

\* TLEStore._extract_norad: re.match(r"1\s+(\d+)", line1), int(m.group(1))
extract_norad(line1) ==
    IF Len(line1) = 0 \/ line1[1] # "1" THEN NoNorad
    ELSE LET ws == SpaceRun(line1, 2)
             nd == DigitRun(line1, 2 + ws)
         IN IF ws = 0 \/ nd = 0 THEN NoNorad
            ELSE ToInt(SubSeq(line1, 2 + ws, 1 + ws + nd))

(***************************************************************************)
(* The dict TLEStore._by_id. A Python dict iterates in insertion order and *)
(* an assignment to an existing key keeps the key's position.              *)
(***************************************************************************)
TLERecord(name, l1, l2, norad) ==
    [name |-> name, line1 |-> l1, line2 |-> l2, norad_id |-> norad]

HasKey(d, k) == \E j \in 1..Len(d) : d[j].norad_id = k

\* self._by_id[norad] = rec
DictSet(d, k, rec) ==
    IF HasKey(d, k)
    THEN [d EXCEPT ![CHOOSE j \in 1..Len(d) : d[j].norad_id = k] = rec]
    ELSE Append(d, rec)

\* Optional[TLERecord]'s None, as a record no load can build
NotFound == TLERecord(<<>>, <<>>, <<>>, NoNorad)

\* TLEStore.get: self._by_id.get(norad_id)
get(d, k) ==
    IF HasKey(d, k) THEN d[CHOOSE j \in 1..Len(d) : d[j].norad_id = k] ELSE NotFound

\* mutant of LoadIter: the prefixes of the name-omitted case are not validated
LoadIter_unchecked_shift(lines, i, count, d) ==
    LET ok3 == startswith(lines[i + 1], P1) /\ startswith(lines[i + 2], P2)
        rname == IF ok3 THEN lines[i] ELSE UNKNOWN
        rl1 == IF ok3 THEN lines[i + 1] ELSE lines[i]
        rl2 == IF ok3 THEN lines[i + 2] ELSE lines[i + 1]
        ni == IF ok3 THEN i + 3 ELSE i + 2
        norad == extract_norad(rl1)
    IN IF norad = NoNorad THEN [i |-> ni, count |-> count, d |-> d]
       ELSE [i |-> ni, count |-> count + 1,
             d |-> DictSet(d, norad, TLERecord(rname, rl1, rl2, norad))]

\* mutant of LoadIter: a skipped line leaves the parse index where it was
LoadIter_stuck(lines, i, count, d) ==
    LET ok3 == startswith(lines[i + 1], P1) /\ startswith(lines[i + 2], P2)
        ok2 == startswith(lines[i], P1) /\ startswith(lines[i + 1], P2)
    IN IF ~ok3 /\ ~ok2 THEN [i |-> i, count |-> count, d |-> d]
       ELSE LoadIter_unchecked_shift(lines, i, count, d)

\* one iteration of the while loop of load_from_text, from parse index i:
\* the new index, count and dict
LoadIter(lines, i, count, d) ==
    LET name == lines[i]
        l1 == lines[i + 1]
        l2 == lines[i + 2]
        ok3 == startswith(l1, P1) /\ startswith(l2, P2)
        ok2 == startswith(lines[i], P1) /\ startswith(lines[i + 1], P2)
    IN IF ~ok3 /\ ~ok2 THEN [i |-> i + 1, count |-> count, d |-> d]
       ELSE LET rname == IF ok3 THEN name ELSE UNKNOWN
                rl1 == IF ok3 THEN l1 ELSE lines[i]
                rl2 == IF ok3 THEN l2 ELSE lines[i + 1]
                ni == IF ok3 THEN i + 3 ELSE i + 2
                norad == extract_norad(rl1)
            IN IF norad = NoNorad THEN [i |-> ni, count |-> count, d |-> d]
               ELSE [i |-> ni, count |-> count + 1,
                     d |-> DictSet(d, norad, TLERecord(rname, rl1, rl2, norad))]

\* the loop guard, with the code's 0-based i + 2 < len(lines) in 1-based indices
LoopGuard(lines, i) == i + 2 <= Len(lines)

RECURSIVE LoadLoop(_, _, _, _)
LoadLoop(lines, i, count, d) ==
    IF ~LoopGuard(lines, i) THEN [count |-> count, d |-> d]
    ELSE LET r == LoadIter(lines, i, count, d)
         IN LoadLoop(lines, r.i, r.count, r.d)

\* TLEStore.load_from_text on a store holding d: the count returned and the dict
load_from_text(d, text) == LoadLoop(CleanLines(text), 1, 0, d)

(***************************************************************************)
(* Input texts. A text is written from a sequence of blocks; a block is a  *)
(* record [kind, id, v]. Line 1 is "1 " + the 5-column catalog field +     *)
(* the classification "U" + v, line 2 is "2 " + the catalog field + " " +  *)
(* v, where v stands for the rest of the line.                             *)
(***************************************************************************)
CatFirstCol == 3
CatLastCol == 7

IdDigit(id) == CASE id = 5 -> "5" [] id = 6 -> "6" [] id = 7 -> "7"

\* the catalog field of a well-formed line: the id, zero-padded to 5 columns
Field(id) == <<"0", "0", "0", "0", IdDigit(id)>>
\* a field that is no integer and starts with a letter (Alpha-5 style)
AlphaField(id) == <<"A", "0", "0", "0", IdDigit(id)>>
\* a field that is no integer and starts with digits
AlnumField(id) == <<"0", "0", "0", IdDigit(id), "A">>

Line1(field, v) == P1 \o field \o <<"U", v>>
Line2(field, v) == P2 \o field \o <<" ", v>>
NameLine(id, v) == <<"S", IdDigit(id), v>>

\* columns 3-7 of a line
CatalogField(line) == SubSeq(line, CatFirstCol, CatLastCol)
IsInteger(field) == field # <<>> /\ \A k \in 1..Len(field) : field[k] \in Digits

ValidKinds == {"named", "nameless"}
CorruptKinds == {"badl1", "badl2", "nol1", "nol2", "alpha", "alnum"}

\* the lines of a block, in order
BlockLines(b) ==
    CASE b.kind = "named" ->
            <<NameLine(b.id, b.v), Line1(Field(b.id), b.v), Line2(Field(b.id), b.v)>>
      [] b.kind = "nameless" ->
            <<Line1(Field(b.id), b.v), Line2(Field(b.id), b.v)>>
      [] b.kind = "badl1" ->
            <<NameLine(b.id, b.v), <<"X", " ">> \o Field(b.id) \o <<"U", b.v>>,
              Line2(Field(b.id), b.v)>>
      [] b.kind = "badl2" ->
            <<NameLine(b.id, b.v), Line1(Field(b.id), b.v),
              <<"2", "X">> \o Field(b.id) \o <<" ", b.v>> >>
      [] b.kind = "nol1" ->
            <<NameLine(b.id, b.v), Line2(Field(b.id), b.v)>>
      [] b.kind = "nol2" ->
            <<NameLine(b.id, b.v), Line1(Field(b.id), b.v)>>
      [] b.kind = "alpha" ->
            <<NameLine(b.id, b.v), Line1(AlphaField(b.id), b.v),
              Line2(AlphaField(b.id), b.v)>>
      [] b.kind = "alnum" ->
            <<NameLine(b.id, b.v), Line1(AlnumField(b.id), b.v),
              Line2(AlnumField(b.id), b.v)>>
      [] b.kind = "mismatch" ->
            <<NameLine(b.id, b.v), Line1(Field(b.id), b.v), Line2(Field(7), b.v)>>

\* the record a valid block describes
BlockRecord(b) ==
    TLERecord(IF b.kind = "nameless" THEN UNKNOWN ELSE NameLine(b.id, b.v),
              Line1(Field(b.id), b.v), Line2(Field(b.id), b.v), b.id)

RECURSIVE Concat(_)
Concat(ss) == IF ss = <<>> THEN <<>> ELSE Head(ss) \o Concat(Tail(ss))

\* the text of a sequence of blocks. "unix": lines end with "\n"; "dos": lines end
\* with "\r\n" and name lines are padded with a trailing space
Formats == {"unix", "dos"}

Eol(fmt) == IF fmt = "unix" THEN <<"\n">> ELSE <<"\r", "\n">>

RawLine(l, fmt) ==
    (IF fmt = "dos" /\ l[1] = "S" THEN Append(l, " ") ELSE l) \o Eol(fmt)

BlockText(b, fmt) ==
    Concat([k \in 1..Len(BlockLines(b)) |-> RawLine(BlockLines(b)[k], fmt)])

TextOf(bs, fmt) == Concat([k \in 1..Len(bs) |-> BlockText(bs[k], fmt)])

SeqsUpTo(S, n) == UNION {[1..k -> S] : k \in 0..n}

(***************************************************************************)
(* Idle values of the three groups of variables.                           *)
(***************************************************************************)
Threads == {1, 2}

IdleThread ==
    [pc |-> "idle", source |-> "none", blocks |-> <<>>, text |-> <<>>,
     lines |-> <<>>, i |-> 0, count |-> 0, old |-> <<>>]

NoObs == [op |-> "none", arg |-> 0, items |-> <<>>, rec |-> NotFound]

NoResult == [done |-> FALSE, count |-> 0]

NoSamples == [done |-> FALSE, raised |-> FALSE, samples |-> <<>>]

NoFluxIn == [rows |-> <<>>, alt_km |-> 0, inc_deg |-> 0, smin |-> 0, smax |-> 0]

NoFlux == [done |-> FALSE, raised |-> FALSE, num |-> 0, den |-> 1]

NoProxIn ==
    [satellite_pos |-> [altitude_km |-> 0, latitude |-> 0, longitude |-> 0],
     debris_list |-> <<>>, max_distance_km |-> 0]

NoProx == [done |-> FALSE, result |-> <<>>, debris_list |-> <<>>]

StoreIdle ==
    /\ by_id = <<>>
    /\ thr = [t \in Threads |-> IdleThread] /\ loads = 0 /\ obs = NoObs
    /\ ptext = <<>> /\ pblocks = <<>> /\ pres = NoResult

PropIdle ==
    /\ prop_in = [minutes |-> 0, step_seconds |-> 0, t0 |-> 0, elements |-> "ok"]
    /\ prop_out = NoSamples

FluxIdle == flux_in = NoFluxIn /\ flux_out = NoFlux

ProxIdle == prox_in = NoProxIn /\ prox_out = NoProx

NoCache == [loaded |-> FALSE, hits |-> 0, misses |-> 0, rows |-> <<>>]

CacheIdle ==
    /\ flux_cache = NoCache
    /\ file_reads = 0
    /\ fthr = [t \in Threads |-> "idle"]
    /\ flux_file = "ok"

NoRiskIn == [cross_section_m2 |-> 0, years |-> 0, flux |-> 0]

NoRisk == [done |-> FALSE, raised |-> FALSE, prob |-> 0,
           risk_level |-> "none", overall_risk |-> "none"]

CalcIdle == risk_in = NoRiskIn /\ risk_out = NoRisk

RiskIdle == FluxIdle /\ ProxIdle /\ CacheIdle /\ CalcIdle

(***************************************************************************)
(* ParseSpec: load_from_text, as a function of its text, on the empty      *)
(* store that TLEStore.__init__ builds.                                    *)
(***************************************************************************)
Ids == {5, 6}

ParseBlocks ==
    {[kind |-> "named", id |-> n, v |-> w] : n \in Ids, w \in {"a", "b"}}
    \cup {[kind |-> "nameless", id |-> n, v |-> "a"] : n \in Ids}
    \cup {[kind |-> k, id |-> 5, v |-> "b"] : k \in CorruptKinds \cup {"mismatch"}}

ParseInit ==
    /\ by_id = <<>>
    /\ \E bs \in SeqsUpTo(ParseBlocks, MaxBlocks), fmt \in Formats :
          /\ pblocks = bs
          /\ ptext = TextOf(bs, fmt)
    /\ pres = NoResult
    /\ thr = [t \in Threads |-> IdleThread] /\ loads = 0 /\ obs = NoObs
    /\ PropIdle /\ RiskIdle

\* count = store.load_from_text(text)
ParseLoad ==
    /\ ~pres.done
    /\ LET r == load_from_text(by_id, ptext)
       IN /\ by_id' = r.d
          /\ pres' = [done |-> TRUE, count |-> r.count]
    /\ UNCHANGED <<thr, loads, obs, ptext, pblocks, prop_in, prop_out, riskVars>>

ParseNext == ParseLoad

ParseSpec == ParseInit /\ [][ParseNext]_vars

(***************************************************************************)
(* The service: main.py's load_tle runs in the server's thread pool, one   *)
(* thread per request, on the one module-level TLEStore; the query         *)
(* handlers read the same store. A thread's steps are the statements that  *)
(* touch the shared dict: clear(), and each iteration of load_from_text's  *)
(* loop (one dict assignment at most).                                     *)
(***************************************************************************)
Sources == {"celestrak", "url", "sample"}

SvcBlocks ==
    {[kind |-> "named", id |-> 5, v |-> "a"], [kind |-> "named", id |-> 6, v |-> "a"],
     [kind |-> "nameless", id |-> 5, v |-> "b"]}

\* what a fetch can deliver: the texts of up to MaxSvcBlocks blocks
SvcTexts == SeqsUpTo(SvcBlocks, MaxSvcBlocks)

\* TLEStore.list_objects(limit): list(self._by_id.items())[:limit], a Python
\* slice: a negative limit counts from the end
SliceEnd(n, limit) ==
    IF limit >= 0 THEN (IF limit < n THEN limit ELSE n)
    ELSE (IF n + limit > 0 THEN n + limit ELSE 0)

ListItem(rec) == [norad_id |-> rec.norad_id, name |-> rec.name]

list_objects(d, limit) ==
    [j \in 1..SliceEnd(Len(d), limit) |-> ListItem(d[j])]

\* mutant of clear: the dict is left as it is
clear_noop(d) == d

\* TLEStore.clear: self._by_id.clear()
clear(d) == <<>>

\* load_tle up to the point where the text is in hand (lines 231-266, 270-275,
\* 278-283): the fetch delivers the text of bs, or fails and the handler raises
RequestOk(t, src, bs) ==
    /\ thr[t].pc = "idle"
    /\ loads < MaxLoads
    /\ loads' = loads + 1
    /\ thr' = [thr EXCEPT ![t] =
                  [pc |-> IF src = "celestrak" THEN "clear" ELSE "load",
                   source |-> src, blocks |-> bs, text |-> TextOf(bs, "unix"),
                   lines |-> CleanLines(TextOf(bs, "unix")), i |-> 1, count |-> 0,
                   old |-> by_id]]
    /\ obs' = NoObs
    /\ UNCHANGED <<by_id, ptext, pblocks, pres, prop_in, prop_out, riskVars>>

\* mutant of RequestFails: the store is cleared before the fetch is attempted
RequestFails_clears(t, src) ==
    /\ thr[t].pc = "idle"
    /\ loads < MaxLoads
    /\ loads' = loads + 1
    /\ by_id' = clear(by_id)
    /\ thr' = [thr EXCEPT ![t] = [IdleThread EXCEPT !.pc = "failed", !.source = src,
                                                    !.old = by_id]]
    /\ obs' = NoObs
    /\ UNCHANGED <<ptext, pblocks, pres, prop_in, prop_out, riskVars>>

\* both CelesTrak endpoints fail, the url is missing or its fetch raises, the
\* sample file is absent, or the source is invalid: HTTP error, nothing else
RequestFails(t, src) ==
    /\ thr[t].pc = "idle"
    /\ loads < MaxLoads
    /\ loads' = loads + 1
    /\ thr' = [thr EXCEPT ![t] = [IdleThread EXCEPT !.pc = "failed", !.source = src,
                                                    !.old = by_id]]
    /\ obs' = NoObs
    /\ UNCHANGED <<by_id, ptext, pblocks, pres, prop_in, prop_out, riskVars>>

\* tle_store.clear() of the celestrak branch (line 267)
Clear(t) ==
    /\ thr[t].pc = "clear"
    /\ by_id' = clear(by_id)
    /\ thr' = [thr EXCEPT ![t].pc = "load"]
    /\ obs' = NoObs
    /\ UNCHANGED <<loads, ptext, pblocks, pres, prop_in, prop_out, riskVars>>

\* one iteration of load_from_text's loop on the shared dict
LoadStep(t) ==
    /\ thr[t].pc = "load"
    /\ LoopGuard(thr[t].lines, thr[t].i)
    /\ LET r == LoadIter(thr[t].lines, thr[t].i, thr[t].count, by_id)
       IN /\ by_id' = r.d
          /\ thr' = [thr EXCEPT ![t].i = r.i, ![t].count = r.count]
    /\ obs' = NoObs
    /\ UNCHANGED <<loads, ptext, pblocks, pres, prop_in, prop_out, riskVars>>

\* the loop ends: load_from_text returns count and load_tle returns {"loaded": count}
LoadReturn(t) ==
    /\ thr[t].pc = "load"
    /\ ~LoopGuard(thr[t].lines, thr[t].i)
    /\ thr' = [thr EXCEPT ![t].pc = "done"]
    /\ obs' = NoObs
    /\ UNCHANGED <<by_id, loads, ptext, pblocks, pres, prop_in, prop_out, riskVars>>

\* the response is sent and the thread goes back to the pool
Release(t) ==
    /\ thr[t].pc \in {"done", "failed"}
    /\ thr' = [thr EXCEPT ![t] = IdleThread]
    /\ obs' = NoObs
    /\ UNCHANGED <<by_id, loads, ptext, pblocks, pres, prop_in, prop_out, riskVars>>

\* mutant of Get: the lookup takes the record out of the dict (dict.pop)
Get_pops(id) ==
    /\ obs' = [NoObs EXCEPT !.op = "get", !.arg = id, !.rec = get(by_id, id)]
    /\ by_id' = SelectSeq(by_id, LAMBDA rec : rec.norad_id # id)
    /\ UNCHANGED <<thr, loads, ptext, pblocks, pres, prop_in, prop_out, riskVars>>

\* a query that reads one record: tle_store.get(norad_id) (api_propagate, line 305)
Get(id) ==
    /\ obs' = [NoObs EXCEPT !.op = "get", !.arg = id, !.rec = get(by_id, id)]
    /\ UNCHANGED <<by_id, thr, loads, ptext, pblocks, pres, prop_in, prop_out, riskVars>>

\* GET /api/objects: tle_store.list_objects(limit=limit); limit is any integer
List(limit) ==
    /\ obs' = [NoObs EXCEPT !.op = "list", !.arg = limit,
                            !.items = list_objects(by_id, limit)]
    /\ UNCHANGED <<by_id, thr, loads, ptext, pblocks, pres, prop_in, prop_out, riskVars>>

QueryIds == {5, 6, 7}
Limits == (0 - MaxLimit)..MaxLimit

Init ==
    /\ by_id = <<>>
    /\ thr = [t \in Threads |-> IdleThread] /\ loads = 0 /\ obs = NoObs
    /\ ptext = <<>> /\ pblocks = <<>> /\ pres = NoResult
    /\ PropIdle /\ RiskIdle

ThreadNext(t) ==
    \/ \E src \in Sources, bs \in SvcTexts : RequestOk(t, src, bs)
    \/ \E src \in Sources \cup {"invalid"} : RequestFails(t, src)
    \/ Clear(t)
    \/ LoadStep(t)
    \/ LoadReturn(t)
    \/ Release(t)

QueryNext ==
    \/ \E id \in QueryIds : Get(id)
    \/ \E limit \in Limits : List(limit)

Next == (\E t \in Threads : ThreadNext(t)) \/ QueryNext

Spec == Init /\ [][Next]_vars

\* load requests one at a time (queries still interleave with a load's steps)
SeqNext == ThreadNext(1) \/ QueryNext

SeqSpec == Init /\ [][SeqNext]_vars

(***************************************************************************)
(* Claims about load_from_text and get (ParseSpec).                        *)
(***************************************************************************)
AllValid(bs) == \A k \in 1..Len(bs) : bs[k].kind \in ValidKinds

\* no later block of the text carries block k's catalog number
LastWithId(bs, k) == \A m \in (k + 1)..Len(bs) : bs[m].id # bs[k].id

\* C3: for a text made of well-formed blocks, any of which may omit its name
\* line, load returns the number of blocks and get retrieves every block's
\* record (the record of the last block of each catalog number), nameless
\* blocks carrying the placeholder name.
C3_NamelessTolerated ==
    (pres.done /\ AllValid(pblocks)) =>
        /\ pres.count = Len(pblocks)
        /\ \A k \in 1..Len(pblocks) :
              LastWithId(pblocks, k) =>
                  get(by_id, pblocks[k].id) = BlockRecord(pblocks[k])

\* C4: a valid block, one corrupted block, another valid block: load returns 2
\* and get returns both valid records. The valid blocks are taken with their
\* name line and with different catalog numbers.
IsResyncText(bs) ==
    /\ Len(bs) = 3
    /\ bs[1].kind = "named" /\ bs[3].kind = "named" /\ bs[1].id # bs[3].id
    /\ bs[2].kind \in CorruptKinds

C4_Resync ==
    (pres.done /\ IsResyncText(pblocks)) =>
        /\ pres.count = 2
        /\ get(by_id, pblocks[1].id) = BlockRecord(pblocks[1])
        /\ get(by_id, pblocks[3].id) = BlockRecord(pblocks[3])

\* C5: a block whose line2 catalog field differs from the catalog number of its
\* line1 is skipped: the store holds no record made of its two lines.
C5_MismatchSkipped ==
    pres.done =>
        \A k \in 1..Len(pblocks) :
            pblocks[k].kind = "mismatch" =>
                ~\E j \in 1..Len(by_id) :
                    /\ by_id[j].line1 = BlockLines(pblocks[k])[2]
                    /\ by_id[j].line2 = BlockLines(pblocks[k])[3]
                    /\ CatalogField(by_id[j].line1) # CatalogField(by_id[j].line2)

\* block k is not followed by a block with a line 1 of the same catalog number
\* next to a line 2 (a later record of that number)
NotSuperseded(bs, k) ==
    \A m \in (k + 1)..Len(bs) :
        bs[m].id = bs[k].id => bs[m].kind \in {"badl1", "badl2", "nol1", "nol2", "alpha"}

\* C6: parsing round trip. For every well-formed 3-line block of the text that
\* no later block of the same catalog number supersedes, get(catalog_id)
\* returns a record whose line1 and line2 are the block's lines and whose
\* catalog_id is the integer in columns 3-7 of line1.
C6_RoundTrip ==
    pres.done =>
        \A k \in 1..Len(pblocks) :
            (pblocks[k].kind = "named" /\ NotSuperseded(pblocks, k)) =>
                LET ls == BlockLines(pblocks[k])
                    rec == get(by_id, ToInt(CatalogField(ls[2])))
                IN /\ rec.line1 = ls[2]
                   /\ rec.line2 = ls[3]
                   /\ rec.norad_id = ToInt(CatalogField(ls[2]))

\* C6 witness: a loaded text of several blocks, in "dos" format, whose named
\* block lies between two corrupted ones and is retrieved.
C6_Witness ==
    /\ pres.done
    /\ Len(pblocks) = 3
    /\ pblocks[1].kind = "nol2" /\ pblocks[2].kind = "named" /\ pblocks[2].id = 5
    /\ pblocks[3].kind = "badl2"
    /\ ptext = TextOf(pblocks, "dos")
    /\ get(by_id, 5).line1 = Line1(Field(5), pblocks[2].v)
    /\ get(by_id, 5).line2 = Line2(Field(5), pblocks[2].v)

\* C8: every record held by the store has a line1 starting with "1 ", a line2
\* starting with "2 " and an integer catalog_id.
C8_StoreInvariant ==
    \A j \in 1..Len(by_id) :
        /\ startswith(by_id[j].line1, P1)
        /\ startswith(by_id[j].line2, P2)
        /\ by_id[j].norad_id \in Nat

\* C8 witness: a text with a block of wrong line1 prefix and one of wrong line2
\* prefix was loaded, and the store holds a record of another block.
C8_Witness ==
    /\ pres.done
    /\ \E k \in 1..Len(pblocks) : pblocks[k].kind = "badl1"
    /\ \E k \in 1..Len(pblocks) : pblocks[k].kind = "badl2"
    /\ Len(by_id) = 1

(***************************************************************************)
(* Claims about the service (Spec, SeqSpec).                               *)
(***************************************************************************)
\* the dict a load of text builds in an empty store
Generation(text) == load_from_text(<<>>, text).d

\* thread t is between the clear() and the return of a celestrak reload
Reloading(t) == thr[t].source = "celestrak" /\ thr[t].pc = "load"

\* C1: while a reload is in progress, a concurrent get or list observes either
\* the complete old set of records or the complete new set.
C1_AtomicReload ==
    \A t \in Threads :
        Reloading(t) =>
            /\ obs.op = "list" =>
                  obs.items \in {list_objects(thr[t].old, obs.arg),
                                 list_objects(Generation(thr[t].text), obs.arg)}
            /\ obs.op = "get" =>
                  obs.rec \in {get(thr[t].old, obs.arg),
                               get(Generation(thr[t].text), obs.arg)}

\* C2: when a load request (celestrak, url or sample) has completed, the store
\* holds only records parsed from that request's text.
C2_OnlyRequestText ==
    \A t \in Threads :
        thr[t].pc = "done" =>
            \A j \in 1..Len(by_id) :
                \E m \in 1..Len(Generation(thr[t].text)) :
                    by_id[j] = Generation(thr[t].text)[m]

\* the last block of bs that carries catalog number id
LastBlock(bs, id) ==
    bs[CHOOSE k \in 1..Len(bs) : bs[k].id = id /\ LastWithId(bs, k)]

C9_ListTruncated ==
    obs.op = "list" =>
        /\ Len(obs.items) <= Max(obs.arg, 0)
        /\ Len(obs.items) <= Len(by_id)
        /\ (Len(obs.items) < Len(by_id) => Len(obs.items) = Max(obs.arg, 0))
        /\ \A j \in 1..Len(obs.items) : obs.items[j] = ListItem(by_id[j])

(***************************************************************************)
(* PropSpec: propagate_positions. The orbital model (EarthSatellite, SGP4) *)
(* is a library. Its constructor raises on lines it cannot parse           *)
(* ("malformed"); on elements the propagator rejects ("degenerate": zero   *)
(* mean motion, eccentricity out of range) it records an error code and    *)
(* every position it computes is NaN. A sample is kept as its timestamp,   *)
(* in seconds, and whether its lat/lon/alt are NaN.                        *)
(***************************************************************************)
SecondsPerMinute == 60

\* def propagate_positions(..., minutes: int = 120, step_seconds: int = 60)
DefaultMinutes == 120
DefaultStep == 60

Elements == {"ok", "degenerate", "malformed"}

\* mutant of Steps: the clamp max(1, ...) is missing
Steps_unclamped(minutes, step_seconds) == (minutes * SecondsPerMinute) \div step_seconds

\* steps = max(1, int((minutes * 60) // step_seconds))
Steps(minutes, step_seconds) ==
    Max(1, (minutes * SecondsPerMinute) \div step_seconds)

\* mutant of propagate_positions: the first sample is one step late
propagate_positions_late(elements, t0, minutes, step_seconds) ==
    [k \in 1..(Steps(minutes, step_seconds) + 1) |->
        [t |-> t0 + k * step_seconds, nan |-> elements # "ok"]]

\* for k in range(steps + 1): t = start_time_utc + timedelta(seconds=k * step_seconds)
\* and the subpoint of sat.at(t), with no look at the propagator's error code
propagate_positions(elements, t0, minutes, step_seconds) ==
    [k \in 1..(Steps(minutes, step_seconds) + 1) |->
        [t |-> t0 + (k - 1) * step_seconds, nan |-> elements # "ok"]]

\* the windows of the requests: the small ones, and the default one
PropWindows ==
    ((1..MaxMinutes) \X (1..MaxStep)) \cup {<<DefaultMinutes, DefaultStep>>}

PropInit ==
    /\ \E w \in PropWindows, start \in {0, 7}, el \in Elements :
          prop_in = [minutes |-> w[1], step_seconds |-> w[2], t0 |-> start,
                     elements |-> el]
    /\ prop_out = NoSamples
    /\ StoreIdle /\ RiskIdle

\* propagate_positions returns its samples
Propagate ==
    /\ prop_out = NoSamples
    /\ prop_in.elements # "malformed"
    /\ prop_out' = [done |-> TRUE, raised |-> FALSE,
                    samples |-> propagate_positions(prop_in.elements, prop_in.t0,
                                                    prop_in.minutes,
                                                    prop_in.step_seconds)]
    /\ UNCHANGED <<by_id, thr, loads, obs, ptext, pblocks, pres, prop_in, riskVars>>

\* EarthSatellite(...) raises: propagate_positions returns nothing
PropagateRaises ==
    /\ prop_out = NoSamples
    /\ prop_in.elements = "malformed"
    /\ prop_out' = [done |-> TRUE, raised |-> TRUE, samples |-> <<>>]
    /\ UNCHANGED <<by_id, thr, loads, obs, ptext, pblocks, pres, prop_in, riskVars>>

PropNext == Propagate \/ PropagateRaises

PropSpec == PropInit /\ [][PropNext]_vars

\* the window length in seconds
Window == prop_in.minutes * SecondsPerMinute

\* C10 as stated: propagate returns exactly floor(duration_minutes*60 /
\* step_seconds) + 1 samples, so 1 sample when step_seconds exceeds the window.
C10_SampleCount ==
    (prop_out.done /\ ~prop_out.raised) =>
        Len(prop_out.samples) = (Window \div prop_in.step_seconds) + 1

\* C10 amended: propagate returns max(1, floor(duration_minutes*60 /
\* step_seconds)) + 1 samples: floor(...) + 1 when step_seconds is at most the
\* window length, and 2 when step_seconds exceeds it.
C10_SampleCountClamped ==
    (prop_out.done /\ ~prop_out.raised) =>
        /\ prop_in.step_seconds <= Window =>
              Len(prop_out.samples) = (Window \div prop_in.step_seconds) + 1
        /\ prop_in.step_seconds > Window => Len(prop_out.samples) = 2

\* C10 witness: a step longer than the window, and the samples returned
C10_Witness ==
    /\ prop_out.done /\ ~prop_out.raised
    /\ prop_in.step_seconds > Window
    /\ Len(prop_out.samples) = 2

\* C11: the samples are ascending in time, the first one is at the start
\* time, consecutive samples are exactly step_seconds apart, and the default
\* window (120 minutes, 60 seconds) gives 121 samples.
C11_Timestamps ==
    (prop_out.done /\ ~prop_out.raised) =>
        /\ prop_out.samples[1].t = prop_in.t0
        /\ \A k \in 1..(Len(prop_out.samples) - 1) :
              /\ prop_out.samples[k].t < prop_out.samples[k + 1].t
              /\ prop_out.samples[k + 1].t - prop_out.samples[k].t
                    = prop_in.step_seconds
        /\ (prop_in.minutes = 120 /\ prop_in.step_seconds = 60) =>
              Len(prop_out.samples) = 121

\* C11 witness: the default window, propagated into its 121 samples
C11_Witness ==
    /\ prop_out.done /\ ~prop_out.raised
    /\ prop_in.minutes = 120 /\ prop_in.step_seconds = 60
    /\ Len(prop_out.samples) = 121
    /\ prop_out.samples[121].t = prop_in.t0 + 7200

\* C12: with degenerate elements propagate fails and returns no samples; it
\* never returns garbage samples.
C12_DegenerateFails ==
    (prop_out.done /\ prop_in.elements = "degenerate") =>
        /\ prop_out.raised
        /\ prop_out.samples = <<>>

(***************************************************************************)
(* FluxSpec: flux_ordem_like on the rows that _load_flux_table returns.    *)
(* Altitudes, inclinations, sizes and fluxes are integers (a flux in units *)
(* of the smallest tabulated one), so the 1e-6 tolerance of the corner     *)
(* match is equality. A flux returned is the exact fraction num/den of the *)
(* interpolation; an exception leaves the function without a value.        *)
(***************************************************************************)
MaxFlux == 2

SetMax(S) == CHOOSE x \in S : \A y \in S : y <= x
SetMin(S) == CHOOSE x \in S : \A y \in S : x <= y
Abs(x) == IF x < 0 THEN 0 - x ELSE x

\* index of the first least key: min(seq, key=...) and sorted(seq, key=...)[0]
\* both keep the first of the elements of equal key
ArgMin(keys) ==
    CHOOSE j \in 1..Len(keys) :
        /\ \A k \in 1..Len(keys) : keys[j] <= keys[k]
        /\ \A k \in 1..(j - 1) : keys[k] > keys[j]

Raised == [raised |-> TRUE, num |-> 0, den |-> 1]
Value(n, d) == [raised |-> FALSE, num |-> n, den |-> d]

\* candidates = [r for r in rows if r["smin"] == smin and r["smax"] == smax]
Candidates(rows, smin, smax) ==
    SelectSeq(rows, LAMBDA r : r.smin = smin /\ r.smax = smax)

\* next((r for r in candidates if r is at (A, I)), None), as an index or 0
FirstAt(seq, A, I) ==
    LET hits == {j \in 1..Len(seq) : seq[j].alt_km = A /\ seq[j].inc_deg = I}
    IN IF hits = {} THEN 0 ELSE SetMin(hits)

\* _neighbors: the default= arguments alts[0], alts[-1], incs[0], incs[-1]
\* are evaluated before max/min are called, so an empty candidate list
\* raises IndexError
neighbors(alt_km, inc_deg, smin, smax, rows) ==
    LET candidates == Candidates(rows, smin, smax)
        alts == {candidates[j].alt_km : j \in 1..Len(candidates)}
        incs == {candidates[j].inc_deg : j \in 1..Len(candidates)}
    IN IF alts = {}
       THEN [raised |-> TRUE, grid |-> <<>>]
       ELSE LET a1 == IF {a \in alts : a <= alt_km} = {} THEN SetMin(alts)
                      ELSE SetMax({a \in alts : a <= alt_km})
                a2 == IF {a \in alts : a >= alt_km} = {} THEN SetMax(alts)
                      ELSE SetMin({a \in alts : a >= alt_km})
                i1 == IF {i \in incs : i <= inc_deg} = {} THEN SetMin(incs)
                      ELSE SetMax({i \in incs : i <= inc_deg})
                i2 == IF {i \in incs : i >= inc_deg} = {} THEN SetMax(incs)
                      ELSE SetMin({i \in incs : i >= inc_deg})
                corners == << <<a1, i1>>, <<a1, i2>>, <<a2, i1>>, <<a2, i2>> >>
                found == SelectSeq(corners,
                             LAMBDA c : FirstAt(candidates, c[1], c[2]) # 0)
            IN [raised |-> FALSE,
                grid |-> [k \in 1..Len(found) |->
                            candidates[FirstAt(candidates, found[k][1], found[k][2])]]]

\* mutant of Dist2D: the altitude is left out of the distance
Dist2D_inclination_only(g, alt_km, inc_deg) == Abs(g.inc_deg - inc_deg)

\* the L1 distance of a grid point to the query, in altitude and inclination
Dist2D(g, alt_km, inc_deg) == Abs(g.alt_km - alt_km) + Abs(g.inc_deg - inc_deg)

\* mutant of bilinear: the weight 1 - t is written 1 + t
bilinear_plus(alt_km, inc_deg, grid) ==
    LET a_vals == {grid[j].alt_km : j \in 1..Len(grid)}
        i_vals == {grid[j].inc_deg : j \in 1..Len(grid)}
    IN IF Cardinality(a_vals) < 2 \/ Cardinality(i_vals) < 2
       THEN Value(grid[ArgMin([k \in 1..Len(grid) |-> Dist2D(grid[k], alt_km, inc_deg)])].flux, 1)
       ELSE LET a1 == SetMin(a_vals)
                a2 == SetMin(a_vals \ {a1})
                i1 == SetMin(i_vals)
                i2 == SetMin(i_vals \ {i1})
                ta == IF a2 = a1 THEN 0 ELSE alt_km - a1
                da == IF a2 = a1 THEN 1 ELSE a2 - a1
                ui == IF i2 = i1 THEN 0 ELSE inc_deg - i1
                di == IF i2 = i1 THEN 1 ELSE i2 - i1
                f(A, I) == grid[FirstAt(grid, A, I)].flux
            IN IF \E A \in {a1, a2}, I \in {i1, i2} : FirstAt(grid, A, I) = 0
               THEN Raised
               ELSE Value(f(a1, i1) * (da + ta) * (di - ui)
                            + f(a2, i1) * ta * (di - ui)
                            + f(a1, i2) * (da + ta) * ui
                            + f(a2, i2) * ta * ui,
                          da * di)

\* _bilinear: with fewer than two altitudes or inclinations in the grid, the
\* flux of the grid point nearest the query; else f11(1-t)(1-u) + f21 t(1-u)
\* + f12(1-t)u + f22 tu, with t = ta/da and u = ui/di. A corner that
\* flux_at does not find is None, and None * float raises TypeError.
bilinear(alt_km, inc_deg, grid) ==
    LET a_vals == {grid[j].alt_km : j \in 1..Len(grid)}
        i_vals == {grid[j].inc_deg : j \in 1..Len(grid)}
    IN IF Cardinality(a_vals) < 2 \/ Cardinality(i_vals) < 2
       THEN Value(grid[ArgMin([k \in 1..Len(grid) |-> Dist2D(grid[k], alt_km, inc_deg)])].flux, 1)
       ELSE LET a1 == SetMin(a_vals)
                a2 == SetMin(a_vals \ {a1})
                i1 == SetMin(i_vals)
                i2 == SetMin(i_vals \ {i1})
                ta == IF a2 = a1 THEN 0 ELSE alt_km - a1
                da == IF a2 = a1 THEN 1 ELSE a2 - a1
                ui == IF i2 = i1 THEN 0 ELSE inc_deg - i1
                di == IF i2 = i1 THEN 1 ELSE i2 - i1
                f(A, I) == grid[FirstAt(grid, A, I)].flux
            IN IF \E A \in {a1, a2}, I \in {i1, i2} : FirstAt(grid, A, I) = 0
               THEN Raised
               ELSE Value(f(a1, i1) * (da - ta) * (di - ui)
                            + f(a2, i1) * ta * (di - ui)
                            + f(a1, i2) * (da - ta) * ui
                            + f(a2, i2) * ta * ui,
                          da * di)

\* the L1 distance of a row to the query over all four coordinates
Dist4D(r, alt_km, inc_deg, smin, smax) ==
    Abs(r.alt_km - alt_km) + Abs(r.inc_deg - inc_deg)
        + Abs(r.smin - smin) + Abs(r.smax - smax)

\* flux_ordem_like, on the rows of the table
flux_ordem_like(rows, alt_km, inc_deg, size_min_cm, size_max_cm) ==
    LET n == neighbors(alt_km, inc_deg, size_min_cm, size_max_cm, rows)
    IN IF n.raised THEN Raised
       ELSE IF n.grid = <<>>
       THEN Value(rows[ArgMin([k \in 1..Len(rows) |->
                      Dist4D(rows[k], alt_km, inc_deg, size_min_cm, size_max_cm)])].flux, 1)
       ELSE bilinear(alt_km, inc_deg, n.grid)

\* The tables of FluxSpec: the points of a 3 x 2 grid of the size bin
\* (1, 10), in the file's order, each one absent or with a flux of
\* 1..MaxFlux, and one row of the size bin (10, 100) or none.
GridPoints ==
    << <<400, 50>>, <<400, 90>>, <<800, 50>>, <<800, 90>>, <<1200, 50>>, <<1200, 90>> >>

BinRow(pt, smin, smax, flux) ==
    [alt_km |-> pt[1], inc_deg |-> pt[2], smin |-> smin, smax |-> smax, flux |-> flux]

TableOf(fl, other) ==
    LET all == [k \in 1..Len(GridPoints) |-> BinRow(GridPoints[k], 1, 10, fl[k])]
    IN SelectSeq(all, LAMBDA r : r.flux > 0)
         \o (IF other THEN <<BinRow(<<800, 50>>, 10, 100, MaxFlux)>> ELSE <<>>)

QueryAlts == {300, 400, 500, 1100, 1300}
QueryIncs == {40, 50, 60}
QueryBins == {<<1, 10>>, <<1, 100>>}

FluxInit ==
    /\ \E fl \in [1..Len(GridPoints) -> 0..MaxFlux], other \in BOOLEAN,
          alt \in QueryAlts, inc \in QueryIncs, bin \in QueryBins :
          flux_in = [rows |-> TableOf(fl, other), alt_km |-> alt, inc_deg |-> inc,
                     smin |-> bin[1], smax |-> bin[2]]
    /\ flux_out = NoFlux
    /\ StoreIdle /\ PropIdle /\ ProxIdle /\ CacheIdle /\ CalcIdle

FluxResult ==
    flux_ordem_like(flux_in.rows, flux_in.alt_km, flux_in.inc_deg,
                    flux_in.smin, flux_in.smax)

\* flux_ordem_like returns a flux
FluxReturns ==
    /\ ~flux_out.done
    /\ ~FluxResult.raised
    /\ flux_out' = [done |-> TRUE, raised |-> FALSE,
                    num |-> FluxResult.num, den |-> FluxResult.den]
    /\ UNCHANGED <<storeVars, flux_in, prox_in, prox_out, flux_cache, file_reads, fthr,
                   flux_file, risk_in, risk_out>>

\* flux_ordem_like is left by an exception (IndexError in _neighbors,
\* TypeError in _bilinear)
FluxRaises ==
    /\ ~flux_out.done
    /\ FluxResult.raised
    /\ flux_out' = [done |-> TRUE, raised |-> TRUE, num |-> 0, den |-> 1]
    /\ UNCHANGED <<storeVars, flux_in, prox_in, prox_out, flux_cache, file_reads, fthr,
                   flux_file, risk_in, risk_out>>

FluxNext == FluxReturns \/ FluxRaises

FluxSpec == FluxInit /\ [][FluxNext]_vars

\* the rows of the requested size bin, their altitudes and inclinations
QCandidates == Candidates(flux_in.rows, flux_in.smin, flux_in.smax)
QAlts == {QCandidates[j].alt_km : j \in 1..Len(QCandidates)}
QIncs == {QCandidates[j].inc_deg : j \in 1..Len(QCandidates)}

\* the flux returned is the flux f
Returned(f) == ~flux_out.raised /\ flux_out.num = f * flux_out.den

\* C13: when no row has the requested size bin, flux does not raise and
\* returns the flux of a row nearest the query by the summed absolute
\* differences of altitude, inclination, size_min and size_max.
C13_NearestFallback ==
    (flux_out.done /\ flux_in.rows # <<>> /\ QCandidates = <<>>) =>
        /\ ~flux_out.raised
        /\ \E j \in 1..Len(flux_in.rows) :
              /\ \A k \in 1..Len(flux_in.rows) :
                    Dist4D(flux_in.rows[j], flux_in.alt_km, flux_in.inc_deg,
                           flux_in.smin, flux_in.smax)
                      <= Dist4D(flux_in.rows[k], flux_in.alt_km, flux_in.inc_deg,
                                flux_in.smin, flux_in.smax)
              /\ Returned(flux_in.rows[j].flux)

\* the bracket of v in the tabulated values S: the greatest one at most v
\* (the lowest one if there is none) and the least one at least v (the
\* highest one if there is none)
Lo(S, v) == IF \E x \in S : x <= v THEN SetMax({x \in S : x <= v}) ELSE SetMin(S)
Hi(S, v) == IF \E x \in S : x >= v THEN SetMin({x \in S : x >= v}) ELSE SetMax(S)

\* the flux tabulated at (A, I) in the requested bin
CornerFlux(A, I) == QCandidates[FirstAt(QCandidates, A, I)].flux

\* the four bracket corners of the query are tabulated
CornersTabulated ==
    /\ QCandidates # <<>>
    /\ \A A \in {Lo(QAlts, flux_in.alt_km), Hi(QAlts, flux_in.alt_km)},
          I \in {Lo(QIncs, flux_in.inc_deg), Hi(QIncs, flux_in.inc_deg)} :
          FirstAt(QCandidates, A, I) # 0

\* C14: when the candidates of the bin have at least 2 distinct altitudes
\* and at least 2 distinct inclinations, the flux returned is the bilinear
\* interpolation of the four bracket corners, with t = (alt - a1)/(a2 - a1)
\* taken as 0 if a1 = a2 and u = (inc - i1)/(i2 - i1) taken as 0 if i1 = i2;
\* so a query on a tabulated altitude and strictly between two tabulated
\* inclinations is interpolated linearly in inclination.
C14_Bilinear ==
    (/\ flux_out.done
     /\ Cardinality(QAlts) >= 2 /\ Cardinality(QIncs) >= 2
     /\ CornersTabulated) =>
        LET a1 == Lo(QAlts, flux_in.alt_km)
            a2 == Hi(QAlts, flux_in.alt_km)
            i1 == Lo(QIncs, flux_in.inc_deg)
            i2 == Hi(QIncs, flux_in.inc_deg)
            ta == IF a1 = a2 THEN 0 ELSE flux_in.alt_km - a1
            da == IF a1 = a2 THEN 1 ELSE a2 - a1
            ui == IF i1 = i2 THEN 0 ELSE flux_in.inc_deg - i1
            di == IF i1 = i2 THEN 1 ELSE i2 - i1
        IN /\ ~flux_out.raised
           /\ flux_out.num * (da * di) =
                 flux_out.den * (CornerFlux(a1, i1) * (da - ta) * (di - ui)
                                   + CornerFlux(a2, i1) * ta * (di - ui)
                                   + CornerFlux(a1, i2) * (da - ta) * ui
                                   + CornerFlux(a2, i2) * ta * ui)

\* the L1 distance of candidate j to the query, over altitude and inclination
QueryL1(j) ==
    Abs(QCandidates[j].alt_km - flux_in.alt_km)
      + Abs(QCandidates[j].inc_deg - flux_in.inc_deg)

\* C15: when the candidates of the bin offer fewer than 2 distinct altitudes
\* or fewer than 2 distinct inclinations, the flux returned is the flux of a
\* candidate nearest the query by L1 distance over altitude and inclination,
\* and no interpolation takes place.
C15_NearestCandidate ==
    (/\ flux_out.done
     /\ QCandidates # <<>>
     /\ Cardinality(QAlts) < 2 \/ Cardinality(QIncs) < 2) =>
        /\ ~flux_out.raised
        /\ flux_out.den = 1
        /\ \E j \in 1..Len(QCandidates) :
              /\ \A k \in 1..Len(QCandidates) : QueryL1(j) <= QueryL1(k)
              /\ flux_out.num = QCandidates[j].flux

\* C15 witness: three altitudes at one inclination, a query between the
\* last two and nearer the last, whose flux differs from the other rows'
C15_Witness ==
    /\ flux_out.done /\ ~flux_out.raised
    /\ Cardinality(QAlts) = 3 /\ Cardinality(QIncs) = 1
    /\ flux_in.alt_km = 1100
    /\ flux_in.inc_deg = 60
    /\ QCandidates[1].flux # QCandidates[3].flux
    /\ QCandidates[2].flux # QCandidates[3].flux
    /\ flux_out.num = QCandidates[3].flux

\* the query lies strictly between two adjacent tabulated lines of the bin,
\* in altitude and in inclination
StrictlyInside ==
    /\ QCandidates # <<>>
    /\ Lo(QAlts, flux_in.alt_km) < flux_in.alt_km
    /\ flux_in.alt_km < Hi(QAlts, flux_in.alt_km)
    /\ Lo(QIncs, flux_in.inc_deg) < flux_in.inc_deg
    /\ flux_in.inc_deg < Hi(QIncs, flux_in.inc_deg)

\* the fluxes of the four bracket corners
CornerFluxes ==
    {CornerFlux(A, I) :
        A \in {Lo(QAlts, flux_in.alt_km), Hi(QAlts, flux_in.alt_km)},
        I \in {Lo(QIncs, flux_in.inc_deg), Hi(QIncs, flux_in.inc_deg)}}

MaxCalls == 4

\* the rows of data/ordem_flux_sample.csv when the file is there and well formed
FileRows == TableOf([k \in 1..Len(GridPoints) |-> 1 + (k % MaxFlux)], TRUE)

\* the state of the flux file on disk: present, absent, or with a row that
\* float() or the column lookup rejects
FileStates == {"ok", "missing", "corrupt"}

\* the process has started: nothing of the module risk runs at import apart
\* from the definition of SAMPLE_FILE, and main.py registers no startup hook
CacheInit ==
    /\ flux_cache = NoCache
    /\ file_reads = 0
    /\ fthr = [t \in Threads |-> "idle"]
    /\ flux_file \in FileStates
    /\ StoreIdle /\ PropIdle /\ FluxIdle /\ ProxIdle /\ CalcIdle

\* flux_ordem_like calls _load_flux_table and the entry is there
FluxRequestHit(t) ==
    /\ fthr[t] = "idle"
    /\ flux_cache.hits + flux_cache.misses < MaxCalls
    /\ flux_cache.loaded
    /\ flux_cache' = [flux_cache EXCEPT !.hits = @ + 1]
    /\ UNCHANGED <<storeVars, flux_in, flux_out, prox_in, prox_out, file_reads, fthr,
                   flux_file, risk_in, risk_out>>

\* flux_ordem_like calls _load_flux_table and the entry is not there: the
\* wrapper goes on to call the function
FluxRequestMiss(t) ==
    /\ fthr[t] = "idle"
    /\ flux_cache.hits + flux_cache.misses < MaxCalls
    /\ ~flux_cache.loaded
    /\ flux_cache' = [flux_cache EXCEPT !.misses = @ + 1]
    /\ fthr' = [fthr EXCEPT ![t] = "reading"]
    /\ UNCHANGED <<storeVars, flux_in, flux_out, prox_in, prox_out, file_reads,
                   flux_file, risk_in, risk_out>>

\* the body of _load_flux_table: open(SAMPLE_FILE) and read its rows
ReadFile(t) ==
    /\ fthr[t] = "reading"
    /\ flux_file = "ok"
    /\ file_reads' = file_reads + 1
    /\ fthr' = [fthr EXCEPT ![t] = "read"]
    /\ UNCHANGED <<storeVars, flux_in, flux_out, prox_in, prox_out, flux_cache,
                   flux_file, risk_in, risk_out>>

\* the body of _load_flux_table raises (FileNotFoundError from open, ValueError
\* or KeyError from a row): lru_cache stores nothing and the exception reaches
\* the handler's except clause (main.py 817-818, 1067-1068)
ReadFileRaises(t) ==
    /\ fthr[t] = "reading"
    /\ flux_file # "ok"
    /\ fthr' = [fthr EXCEPT ![t] = "http500"]
    /\ UNCHANGED <<storeVars, flux_in, flux_out, prox_in, prox_out, flux_cache,
                   file_reads, flux_file, risk_in, risk_out>>

\* the handler answers the query with HTTP 500 and the thread goes back to the pool
Respond500(t) ==
    /\ fthr[t] = "http500"
    /\ fthr' = [fthr EXCEPT ![t] = "idle"]
    /\ UNCHANGED <<storeVars, flux_in, flux_out, prox_in, prox_out, flux_cache,
                   file_reads, flux_file, risk_in, risk_out>>

\* the wrapper stores the rows returned and hands them to the caller
StoreCache(t) ==
    /\ fthr[t] = "read"
    /\ flux_cache' = [flux_cache EXCEPT !.loaded = TRUE, !.rows = FileRows]
    /\ fthr' = [fthr EXCEPT ![t] = "idle"]
    /\ UNCHANGED <<storeVars, flux_in, flux_out, prox_in, prox_out, file_reads,
                   flux_file, risk_in, risk_out>>

\* api_debris_risk_zones: open(ordem_file) and read its rows, whatever the
\* cache holds
RiskZones(t) ==
    /\ fthr[t] = "idle"
    /\ flux_file = "ok"
    /\ file_reads < MaxCalls
    /\ file_reads' = file_reads + 1
    /\ UNCHANGED <<storeVars, flux_in, flux_out, prox_in, prox_out, flux_cache, fthr,
                   flux_file, risk_in, risk_out>>

\* api_debris_risk_zones when its open or a row raises: HTTP 500 (line 977-978)
RiskZonesRaises(t) ==
    /\ fthr[t] = "idle"
    /\ flux_file # "ok"
    /\ fthr' = [fthr EXCEPT ![t] = "http500"]
    /\ UNCHANGED <<storeVars, flux_in, flux_out, prox_in, prox_out, flux_cache,
                   file_reads, flux_file, risk_in, risk_out>>

CacheNext ==
    \E t \in Threads :
        \/ FluxRequestHit(t)
        \/ FluxRequestMiss(t)
        \/ ReadFile(t)
        \/ ReadFileRaises(t)
        \/ StoreCache(t)
        \/ RiskZones(t)
        \/ RiskZonesRaises(t)
        \/ Respond500(t)

CacheSpec == CacheInit /\ [][CacheNext]_vars

\* C17: the flux file is read at most once per process, also when several
\* requests make the first flux request concurrently, and every later
\* read of the grid by the service is served from the cached grid.
C17_ReadOnce == file_reads <= 1

(***************************************************************************)
(* ProxSpec: filter_debris_by_proximity. Latitudes and longitudes are      *)
(* multiples of 90 degrees, where cos and sin are -1, 0 or 1, so the       *)
(* Cartesian coordinates and the squared distance are whole numbers and    *)
(* the test distance_km <= max_distance_km is decided exactly on the       *)
(* squares. Speeds are in m/s (the unit of round(relative_velocity, 3))    *)
(* and risk factors in units of 0.0001 (the unit of round(combined_risk,   *)
(* 4)). A debris dict is a record; a key the dict does not have yet is     *)
(* Unset.                                                                  *)
(***************************************************************************)
MaxDebris == 3

earth_radius == 6371
mu == 398600
Unset == -1

CosDeg(a) == CASE a = 0 -> 1 [] a = 180 -> -1 [] a = -180 -> -1 [] OTHER -> 0
SinDeg(a) == CASE a = 90 -> 1 [] a = -90 -> -1 [] OTHER -> 0

\* the integer square root, by bisection
RECURSIVE ISqrtIn(_, _, _)
ISqrtIn(n, lo, hi) ==
    IF lo >= hi THEN lo
    ELSE LET mid == (lo + hi + 1) \div 2
         IN IF mid * mid <= n THEN ISqrtIn(n, mid, hi) ELSE ISqrtIn(n, lo, mid - 1)

ISqrt(n) == ISqrtIn(n, 0, 46340)

\* x, y, z of a position at radius r
Cartesian(r, lat, lon) ==
    <<r * CosDeg(lat) * CosDeg(lon), r * CosDeg(lat) * SinDeg(lon), r * SinDeg(lat)>>

\* (sat_x - debris_x)**2 + (sat_y - debris_y)**2 + (sat_z - debris_z)**2
DistanceSquared(sat, debris) ==
    LET s == Cartesian(earth_radius + sat.altitude_km, sat.latitude, sat.longitude)
        d == Cartesian(earth_radius + debris.altitude, debris.latitude, debris.longitude)
    IN (s[1] - d[1]) * (s[1] - d[1]) + (s[2] - d[2]) * (s[2] - d[2])
         + (s[3] - d[3]) * (s[3] - d[3])

\* math.sqrt(398600 / r), in m/s
orbital_velocity(r) == ISqrt(((mu * 1000) \div r) * 1000)

\* abs(sat_orbital_velocity - debris_orbital_velocity), in m/s
relative_velocity(sat, debris) ==
    Abs(orbital_velocity(earth_radius + sat.altitude_km)
          - orbital_velocity(earth_radius + debris.altitude))

\* mutant of InRange: the candidate at exactly max_distance_km is dropped
InRange_strict(d2, max_distance_km) == d2 < max_distance_km * max_distance_km

\* if distance_km <= max_distance_km
InRange(d2, max_distance_km) == d2 <= max_distance_km * max_distance_km

\* round(x, 4) of x = n/d, in units of 0.0001: to the nearest, halves to even
RoundHalfEven(n, d) ==
    LET q == n \div d
        r == n % d
    IN IF 2 * r < d THEN q
       ELSE IF 2 * r > d THEN q + 1
       ELSE IF q % 2 = 0 THEN q ELSE q + 1

\* mutant of combined_risk: the weights 0.7 and 0.3 are exchanged
combined_risk_swapped(distance_km, rv, max_distance_km) ==
    [num |-> 30000 * Max(0, max_distance_km - distance_km)
               + 7 * Min(10000, rv) * max_distance_km,
     den |-> 10 * max_distance_km]

\* risk_distance_factor * 0.7 + risk_velocity_factor * 0.3, as the fraction
\* num/den of units of 0.0001, with rv in m/s
combined_risk(distance_km, rv, max_distance_km) ==
    [num |-> 70000 * Max(0, max_distance_km - distance_km)
               + 3 * Min(10000, rv) * max_distance_km,
     den |-> 10 * max_distance_km]

\* the three assignments into the debris dict
Scored(sat, debris, max_distance_km) ==
    LET distance_km == ISqrt(DistanceSquared(sat, debris))
        rv == relative_velocity(sat, debris)
        risk == combined_risk(distance_km, rv, max_distance_km)
    IN [debris EXCEPT !.distance_from_satellite_km = distance_km,
                      !.relative_velocity_kms = rv,
                      !.proximity_risk_factor = RoundHalfEven(risk.num, risk.den)]

\* mutant of Insert: x goes before the elements of equal key
RECURSIVE Insert_before_equal(_, _)
Insert_before_equal(sorted, x) ==
    IF sorted = <<>> THEN <<x>>
    ELSE IF Head(sorted).proximity_risk_factor > x.proximity_risk_factor
         THEN <<Head(sorted)>> \o Insert_before_equal(Tail(sorted), x)
         ELSE <<x>> \o sorted

\* x put into a list sorted by descending key, behind the elements of
\* greater or equal key
RECURSIVE Insert(_, _)
Insert(sorted, x) ==
    IF sorted = <<>> THEN <<x>>
    ELSE IF Head(sorted).proximity_risk_factor >= x.proximity_risk_factor
         THEN <<Head(sorted)>> \o Insert(Tail(sorted), x)
         ELSE <<x>> \o sorted

\* sorted(filtered_debris, key=lambda x: x["proximity_risk_factor"],
\* reverse=True): a stable sort, which reverse=True keeps stable
RECURSIVE SortedDesc(_)
SortedDesc(seq) ==
    IF seq = <<>> THEN <<>>
    ELSE Insert(SortedDesc(SubSeq(seq, 1, Len(seq) - 1)), seq[Len(seq)])

\* filter_debris_by_proximity: the list returned, and the caller's list
\* after the call (the dicts in range are the caller's, assigned in place)
filter_debris_by_proximity(satellite_pos, debris_list, max_distance_km) ==
    LET after == [k \in 1..Len(debris_list) |->
                    IF InRange(DistanceSquared(satellite_pos, debris_list[k]),
                               max_distance_km)
                    THEN Scored(satellite_pos, debris_list[k], max_distance_km)
                    ELSE debris_list[k]]
        kept == SelectSeq([k \in 1..Len(debris_list) |-> k],
                          LAMBDA k : InRange(DistanceSquared(satellite_pos, debris_list[k]),
                                             max_distance_km))
        filtered_debris == [j \in 1..Len(kept) |-> after[kept[j]]]
    IN [result |-> SortedDesc(filtered_debris), debris_list |-> after]

\* The inputs of ProxSpec. The satellite is over the equator; a debris item
\* is on the satellite's radius, a quarter turn or half a turn away, or
\* over the pole. fetch_nasa_debris names its items by their rank.
SatPositions ==
    {[altitude_km |-> 400, latitude |-> 0, longitude |-> 0],
     [altitude_km |-> 500, latitude |-> 0, longitude |-> 90]}

DebrisPositions ==
    ({350, 450, 500, 1400} \X {0} \X {0, 90})
        \cup {<<450, 90, 0>>, <<450, 0, 180>>}

Debris(k, pos) ==
    [name |-> k, altitude |-> pos[1], latitude |-> pos[2], longitude |-> pos[3],
     distance_from_satellite_km |-> Unset, relative_velocity_kms |-> Unset,
     proximity_risk_factor |-> Unset]

\* proximity_km of api_debris_nasa (100 to 5000), and the 2000 km of
\* api_predict_impact
MaxDistances == {100, 1000, 2000}

ProxInit ==
    /\ \E sat \in SatPositions, ps \in SeqsUpTo(DebrisPositions, MaxDebris),
          max \in MaxDistances :
          prox_in = [satellite_pos |-> sat,
                     debris_list |-> [k \in 1..Len(ps) |-> Debris(k, ps[k])],
                     max_distance_km |-> max]
    /\ prox_out = NoProx
    /\ StoreIdle /\ PropIdle /\ FluxIdle /\ CacheIdle /\ CalcIdle

\* nearby_debris = filter_debris_by_proximity(satellite_pos, all_debris, ...)
FilterDebris ==
    /\ ~prox_out.done
    /\ LET r == filter_debris_by_proximity(prox_in.satellite_pos, prox_in.debris_list,
                                           prox_in.max_distance_km)
       IN prox_out' = [done |-> TRUE, result |-> r.result, debris_list |-> r.debris_list]
    /\ UNCHANGED <<storeVars, flux_in, flux_out, prox_in, flux_cache, file_reads, fthr,
                   flux_file, risk_in, risk_out>>

ProxNext == FilterDebris

ProxSpec == ProxInit /\ [][ProxNext]_vars

\* the names of the candidates returned, in the order returned
ResultNames == [j \in 1..Len(prox_out.result) |-> prox_out.result[j].name]

\* candidate k of the input is returned
InResult(k) == \E j \in 1..Len(prox_out.result) : prox_out.result[j].name = k

\* the squared distance of candidate k of the input to the satellite
D2(k) == DistanceSquared(prox_in.satellite_pos, prox_in.debris_list[k])

\* C18: a candidate is in the result if and only if its 3-D distance to the
\* satellite is at most max_distance_km; a candidate farther away is absent,
\* and it is returned once.
C18_ExactlyInRange ==
    prox_out.done =>
        /\ \A k \in 1..Len(prox_in.debris_list) :
              InResult(k) <=>
                  D2(k) <= prox_in.max_distance_km * prox_in.max_distance_km
        /\ \A i, j \in 1..Len(prox_out.result) :
              prox_out.result[i].name = prox_out.result[j].name => i = j

\* C18 witness: a candidate at exactly max_distance_km is returned, and one
\* at the satellite's altitude a quarter turn away is not
C18_Witness ==
    /\ prox_out.done
    /\ \E k \in 1..Len(prox_in.debris_list) :
          /\ D2(k) = prox_in.max_distance_km * prox_in.max_distance_km
          /\ InResult(k)
    /\ \E k \in 1..Len(prox_in.debris_list) :
          /\ prox_in.debris_list[k].altitude = prox_in.satellite_pos.altitude_km + 50
          /\ prox_in.debris_list[k].longitude # prox_in.satellite_pos.longitude
          /\ ~InResult(k)

\* the risk of a returned candidate by the formula, times 10 * max_distance_km,
\* in units of 0.0001: 0.7 (max - d)/max + 0.3 min(1, v/10)
FormulaRisk(x) ==
    70000 * (prox_in.max_distance_km - x.distance_from_satellite_km)
      + 3 * Min(10000, x.relative_velocity_kms) * prox_in.max_distance_km

\* C19 as stated: the proximity risk factor of every returned candidate
\* equals 0.7*(max_distance_km - distance_km)/max_distance_km
\* + 0.3*min(1, relative_velocity/10) and lies in [0, 1].
C19_RiskFormula ==
    prox_out.done =>
        \A j \in 1..Len(prox_out.result) :
            LET x == prox_out.result[j]
            IN /\ x.proximity_risk_factor * 10 * prox_in.max_distance_km = FormulaRisk(x)
               /\ 0 <= x.proximity_risk_factor /\ x.proximity_risk_factor <= 10000

\* C19 amended: the proximity risk factor of every returned candidate is
\* the value of that formula rounded to 4 decimals, so within 0.00005 of it,
\* and lies in [0, 1].
C19_RiskFormulaRounded ==
    prox_out.done =>
        \A j \in 1..Len(prox_out.result) :
            LET x == prox_out.result[j]
            IN /\ 2 * Abs(x.proximity_risk_factor * 10 * prox_in.max_distance_km
                            - FormulaRisk(x))
                    <= 10 * prox_in.max_distance_km
               /\ 0 <= x.proximity_risk_factor /\ x.proximity_risk_factor <= 10000

\* C19 witness: a candidate in range, not at the satellite and slower or
\* faster than it, whose risk by the formula has more than 4 decimals
C19_Witness ==
    /\ prox_out.done
    /\ \E j \in 1..Len(prox_out.result) :
          LET x == prox_out.result[j]
          IN /\ x.distance_from_satellite_km > 0
             /\ x.relative_velocity_kms > 0
             /\ FormulaRisk(x) % (10 * prox_in.max_distance_km) # 0

\* C20: the result is in descending order of proximity risk factor, and
\* candidates of equal risk factor are in the order of the input list.
C20_StableDescending ==
    prox_out.done =>
        \A i, j \in 1..Len(prox_out.result) :
            i < j =>
                /\ prox_out.result[i].proximity_risk_factor
                     >= prox_out.result[j].proximity_risk_factor
                /\ prox_out.result[i].proximity_risk_factor
                     = prox_out.result[j].proximity_risk_factor
                     => prox_out.result[i].name < prox_out.result[j].name

\* C20 witness: three candidates returned, the last of the input first, the
\* two others of equal risk factor
C20_Witness ==
    /\ prox_out.done
    /\ Len(prox_out.result) = 3
    /\ ResultNames = <<3, 1, 2>>
    /\ prox_out.result[2].proximity_risk_factor = prox_out.result[3].proximity_risk_factor
    /\ prox_out.result[1].proximity_risk_factor > prox_out.result[2].proximity_risk_factor

(***************************************************************************)
(* RiskSpec: annual_collision_probability and the levels the handlers      *)
(* derive from a collision probability. The cross-section is in m2, the    *)
(* duration in years, the flux in units of 0.0000001 per m2 and year, so   *)
(* lam is in units of 0.0000001; a probability is in millionths. math.exp  *)
(* returns the number nearest e^x that its result type can hold (a double, *)
(* of 53 bits); here it is the table of e^x to the nearest millionth at    *)
(* the lam the inputs can give, and 1.0 - math.exp(-lam) is the difference *)
(* of two such numbers.                                                    *)
(***************************************************************************)
One == 1000000

AreaValues == {-1, 0, 1, 3, 10}
YearValues == {-1, 0, 1, 10}
FluxValues == {-1, 0, 1, 100, 100000}

\* One * math.exp(-lam), for lam in units of 0.0000001
exp_neg(lam) ==
    CASE lam = -1000000 -> 1105171 []
         lam = -300000 -> 1030455 []
         lam = -100000 -> 1010050 []
         lam = -1000 -> 1000100 []
         lam = -300 -> 1000030 []
         lam = -100 -> 1000010 []
         lam = -30 -> 1000003 []
         lam = -10 -> 1000001 []
         lam = -3 -> 1000000 []
         lam = -1 -> 1000000 []
         lam = 0 -> 1000000 []
         lam = 1 -> 1000000 []
         lam = 3 -> 1000000 []
         lam = 10 -> 999999 []
         lam = 30 -> 999997 []
         lam = 100 -> 999990 []
         lam = 300 -> 999970 []
         lam = 1000 -> 999900 []
         lam = 3000 -> 999700 []
         lam = 10000 -> 999000 []
         lam = 100000 -> 990050 []
         lam = 300000 -> 970446 []
         lam = 1000000 -> 904837 []
         lam = 3000000 -> 740818 []
         lam = 10000000 -> 367879

\* lam = F * A * T; return 1.0 - math.exp(-lam)
annual_collision_probability(cross_section_m2, years, flux_per_m2_per_year) ==
    One - exp_neg(flux_per_m2_per_year * cross_section_m2 * years)

\* api_risk_ordem: "Critic" if prob > 0.1, "Inalt" if prob > 0.01, "Moderat"
\* if prob > 0.001, else "Redus"
risk_level(prob) ==
    IF prob > 100000 THEN "Critic"
    ELSE IF prob > 10000 THEN "Inalt"
    ELSE IF prob > 1000 THEN "Moderat"
    ELSE "Redus"

\* api_predict_impact, on the highest collision probability of the debris
\* nearby: "HIGH" if it is > 0.001, "MODERATE" if > 0.0001, else "LOW"
overall_risk(prob) ==
    IF prob > 1000 THEN "HIGH"
    ELSE IF prob > 100 THEN "MODERATE"
    ELSE "LOW"

RiskInit ==
    /\ \E a \in AreaValues, t \in YearValues, f \in FluxValues :
          risk_in = [cross_section_m2 |-> a, years |-> t, flux |-> f]
    /\ risk_out = NoRisk
    /\ StoreIdle /\ PropIdle /\ FluxIdle /\ ProxIdle /\ CacheIdle

RiskProb == annual_collision_probability(risk_in.cross_section_m2, risk_in.years,
                                         risk_in.flux)

\* a call of annual_collision_probability with any three numbers
CollisionProbability ==
    /\ ~risk_out.done
    /\ risk_out' = [NoRisk EXCEPT !.done = TRUE, !.prob = RiskProb]
    /\ UNCHANGED <<storeVars, flux_in, flux_out, prox_in, prox_out, flux_cache,
                   file_reads, fthr, flux_file, risk_in>>

\* api_risk_ordem, from the flux on: area_m2 and duration_days are gt=0, the
\* flux is what the table holds
RiskOrdem ==
    /\ ~risk_out.done
    /\ risk_in.cross_section_m2 > 0 /\ risk_in.years > 0
    /\ risk_out' = [NoRisk EXCEPT !.done = TRUE, !.prob = RiskProb,
                                  !.risk_level = risk_level(RiskProb)]
    /\ UNCHANGED <<storeVars, flux_in, flux_out, prox_in, prox_out, flux_cache,
                   file_reads, fthr, flux_file, risk_in>>

\* api_predict_impact, from the flux on, for the debris item of the highest
\* probability (the handler's cross-section and duration are fixed; its
\* thresholds do not depend on them)
PredictImpact ==
    /\ ~risk_out.done
    /\ risk_in.cross_section_m2 > 0 /\ risk_in.years > 0
    /\ risk_out' = [NoRisk EXCEPT !.done = TRUE, !.prob = RiskProb,
                                  !.overall_risk = overall_risk(RiskProb)]
    /\ UNCHANGED <<storeVars, flux_in, flux_out, prox_in, prox_out, flux_cache,
                   file_reads, fthr, flux_file, risk_in>>

RiskNext == CollisionProbability \/ RiskOrdem \/ PredictImpact

RiskSpec == RiskInit /\ [][RiskNext]_vars

\* C21: with a negative cross-section, duration or flux the call fails
\* before computing anything, and no value outside [0, 1] is ever returned.
C21_NegativeRejected ==
    risk_out.done =>
        /\ (risk_in.cross_section_m2 < 0 \/ risk_in.years < 0 \/ risk_in.flux < 0)
              => risk_out.raised
        /\ ~risk_out.raised => (0 <= risk_out.prob /\ risk_out.prob <= One)

\* C22: for non-negative inputs the probability is non-decreasing in each of
\* the cross-section, the duration and the flux with the other two fixed,
\* and it is 0 exactly when their product is 0.
C22_Monotone ==
    (/\ risk_out.done /\ ~risk_out.raised
     /\ risk_in.cross_section_m2 >= 0 /\ risk_in.years >= 0 /\ risk_in.flux >= 0) =>
        /\ \A a \in AreaValues :
              a >= risk_in.cross_section_m2 =>
                  annual_collision_probability(a, risk_in.years, risk_in.flux)
                      >= risk_out.prob
        /\ \A t \in YearValues :
              t >= risk_in.years =>
                  annual_collision_probability(risk_in.cross_section_m2, t, risk_in.flux)
                      >= risk_out.prob
        /\ \A f \in FluxValues :
              f >= risk_in.flux =>
                  annual_collision_probability(risk_in.cross_section_m2, risk_in.years, f)
                      >= risk_out.prob
        /\ risk_out.prob = 0
              <=> risk_in.cross_section_m2 * risk_in.years * risk_in.flux = 0

\* the level of a probability by the thresholds 0.1, 0.01 and 0.001
ThresholdLevel(prob) ==
    IF prob > 100000 THEN "Critical"
    ELSE IF prob > 10000 THEN "High"
    ELSE IF prob > 1000 THEN "Moderate"
    ELSE "Low"

\* the names the two handlers give the four levels
LevelName == [Critical |-> "Critic", High |-> "Inalt", Moderate |-> "Moderat", Low |-> "Redus"]
OverallName == [Critical |-> "CRITICAL", High |-> "HIGH", Moderate |-> "MODERATE", Low |-> "LOW"]

\* C23: a collision probability p is Critical if p > 0.1, else High if
\* p > 0.01, else Moderate if p > 0.001, else Low, in every handler that
\* classifies a collision probability.
C23_Thresholds ==
    risk_out.done =>
        /\ risk_out.risk_level # "none" =>
              risk_out.risk_level = LevelName[ThresholdLevel(risk_out.prob)]
        /\ risk_out.overall_risk # "none" =>
              risk_out.overall_risk = OverallName[ThresholdLevel(risk_out.prob)]

\* C24: scoring a list of debris candidates for proximity leaves every
\* candidate and the list as they were passed in.
C24_NoMutation ==
    prox_out.done => prox_out.debris_list = prox_in.debris_list

\* the fluxes tabulated for the requested bin
BinFluxes == {QCandidates[j].flux : j \in 1..Len(QCandidates)}

\* C29: for a query whose size bin is in the table, flux does not raise and
\* returns a number between the lowest and the highest flux tabulated for
\* that bin, also when bracket corners are missing from the table.
C29_SparseSafe ==
    (flux_out.done /\ QCandidates # <<>>) =>
        /\ ~flux_out.raised
        /\ SetMin(BinFluxes) * flux_out.den <= flux_out.num
        /\ flux_out.num <= SetMax(BinFluxes) * flux_out.den


\* ---- C27: load terminates, the parse index strictly increases ----

\* the parse indices the loop of load_from_text visits from index i
RECURSIVE VisitedFrom(_, _)
VisitedFrom(lines, i) ==
    IF ~LoopGuard(lines, i) THEN {}
    ELSE {i} \cup VisitedFrom(lines, LoadIter(lines, i, 0, <<>>).i)

\* the advance of the parse index in the iteration at index i
Advance(lines, i) == LoadIter(lines, i, 0, <<>>).i - i

\* C27: for every input text, every iteration of load's loop moves the parse
\* index forward by 1, 2 or 3 and never past the line after the last one (so
\* the loop ends within len(lines) iterations and reads no line out of range),
\* skip iterations and blocks with an unparsable ID included, and a load that
\* has returned has returned a count
C27_Terminates ==
    LET lines == CleanLines(ptext)
    IN /\ \A i \in 1..Len(lines) :
              LoopGuard(lines, i) =>
                  /\ Advance(lines, i) \in {1, 2, 3}
                  /\ i + Advance(lines, i) <= Len(lines) + 1
       /\ pres.done => pres.count \in 0..Len(lines)

\* a load has returned on a text whose iterations advanced by 1, by 2 and by 3,
\* one of them on a block whose ID cannot be parsed
C27_Witness ==
    LET lines == CleanLines(ptext)
        seen == VisitedFrom(lines, 1)
    IN /\ pres.done
       /\ \A k \in {1, 2, 3} : \E i \in seen : Advance(lines, i) = k
       /\ \E i \in seen :
              /\ Advance(lines, i) = 3
              /\ LoadIter(lines, i, 0, <<>>).count = 0


\* ---- C28: several valid blocks with the same catalog ID ----

\* the blocks of the text that carry catalog number id
BlocksWithId(bs, id) == {k \in 1..Len(bs) : bs[k].id = id}

\* some catalog number is carried by two blocks of the text
IdRepeats(bs) == \E k, m \in 1..Len(bs) : k # m /\ bs[k].id = bs[m].id

\* the records of the dict stored under catalog number id
RecordsWithId(d, id) == {j \in 1..Len(d) : d[j].norad_id = id}

\* C28: after a load of a text of valid blocks into an empty store, for each
\* catalog ID carried by several blocks get(id) returns the record of the last
\* of them and the store holds exactly one record for that ID, the returned
\* count counts every block, and so the count equals the number of stored
\* records exactly when no catalog ID repeats in the text
C28_LastWins ==
    (pres.done /\ AllValid(pblocks)) =>
        /\ \A id \in Ids :
              Cardinality(BlocksWithId(pblocks, id)) >= 2 =>
                  /\ get(by_id, id) = BlockRecord(pblocks[SetMax(BlocksWithId(pblocks, id))])
                  /\ Cardinality(RecordsWithId(by_id, id)) = 1
        /\ IdRepeats(pblocks) => pres.count = Len(pblocks)
        /\ (pres.count = Len(by_id)) <=> ~IdRepeats(pblocks)

\* the same statement for texts that do not end with a name-omitted block (the
\* block that the loop guard of C3 leaves unparsed)
C28_LastWinsParsed ==
    (pblocks # <<>> /\ pblocks[Len(pblocks)].kind = "named") => C28_LastWins


\* ---- C30: a load request that cannot obtain its text ----

\* C30: when a load request fails to obtain its TLE text (both CelesTrak
\* endpoints fail, the url is missing or its fetch raises, the sample file is
\* absent, the source is invalid) the store holds what it held when the request
\* arrived, and a request is at its clear or load step only with its text in hand
C30_FailedFetchKeepsStore ==
    /\ thr[1].pc = "failed" => by_id = thr[1].old
    /\ thr[1].pc \in {"clear", "load"} =>
          /\ thr[1].source \in Sources
          /\ thr[1].lines = CleanLines(thr[1].text)

\* a request whose CelesTrak endpoints both failed, on a store that holds records
C30_Witness ==
    /\ thr[1].pc = "failed"
    /\ thr[1].source = "celestrak"
    /\ by_id # <<>>


\* ---- C26: a missing or corrupt flux table ----

\* C26: a flux file that is missing or corrupt is detected at startup and is
\* fatal there: while the table is unavailable the service accepts no query
\* (no thread is inside a flux or risk request) and no query is answered with
\* the failure
C26_FatalAtStartup ==
    flux_file # "ok" =>
        /\ \A t \in Threads : fthr[t] = "idle"
        /\ flux_cache.misses = 0


\* ---- the queries of the service on a loaded store ----

\* the stores the queries run on: what a load of these texts leaves
QueryTexts ==
    {<<>>, <<[kind |-> "named", id |-> 5, v |-> "a"]>>,
     <<[kind |-> "named", id |-> 5, v |-> "a"], [kind |-> "named", id |-> 6, v |-> "a"]>>}

QueryInit ==
    /\ \E bs \in QueryTexts :
          /\ pblocks = bs
          /\ ptext = TextOf(bs, "unix")
          /\ by_id = load_from_text(<<>>, TextOf(bs, "unix")).d
    /\ pres = NoResult
    /\ thr = [t \in Threads |-> IdleThread] /\ loads = 0 /\ obs = NoObs
    /\ PropIdle /\ FluxIdle /\ ProxIdle /\ CalcIdle
    /\ flux_cache = NoCache
    /\ file_reads = 0
    /\ fthr = [t \in Threads |-> "idle"]
    /\ flux_file \in FileStates

\* GET /api/propagate (main.py 298-318): 404 when the record is not in the
\* store, else propagate_positions on the record, which returns its samples or
\* raises on elements the propagator rejects
ApiPropagate(id, el) ==
    /\ obs' = [NoObs EXCEPT !.op = "propagate", !.arg = id, !.rec = get(by_id, id)]
    /\ prop_in' = [minutes |-> 1, step_seconds |-> DefaultStep, t0 |-> 0,
                   elements |-> el]
    /\ prop_out' =
          IF get(by_id, id) = NotFound THEN NoSamples
          ELSE IF el = "malformed" THEN [done |-> TRUE, raised |-> TRUE, samples |-> <<>>]
          ELSE [done |-> TRUE, raised |-> FALSE,
                samples |-> propagate_positions(el, 0, 1, DefaultStep)]
    /\ UNCHANGED <<by_id, thr, loads, ptext, pblocks, pres, riskVars>>

\* GET /api/risk/ordem served from the cached grid (main.py 763-818): 404 when
\* the record is not in the store, else flux_ordem_like on the rows that
\* _load_flux_table hands out, which returns a flux or raises (HTTP 500)
ApiRiskOrdem(t, id, alt, inc) ==
    /\ fthr[t] = "idle"
    /\ flux_cache.loaded
    /\ obs' = [NoObs EXCEPT !.op = "risk", !.arg = id, !.rec = get(by_id, id)]
    /\ IF get(by_id, id) = NotFound
       THEN UNCHANGED <<flux_in, flux_out, flux_cache>>
       ELSE /\ flux_cache.hits + flux_cache.misses < MaxCalls
            /\ flux_cache' = [flux_cache EXCEPT !.hits = @ + 1]
            /\ flux_in' = [rows |-> flux_cache.rows, alt_km |-> alt, inc_deg |-> inc,
                           smin |-> 1, smax |-> 10]
            /\ LET f == flux_ordem_like(flux_cache.rows, alt, inc, 1, 10)
               IN flux_out' = [done |-> TRUE, raised |-> f.raised,
                               num |-> IF f.raised THEN 0 ELSE f.num,
                               den |-> IF f.raised THEN 1 ELSE f.den]
    /\ UNCHANGED <<by_id, thr, loads, ptext, pblocks, pres, prop_in, prop_out,
                   prox_in, prox_out, file_reads, fthr, flux_file, risk_in, risk_out>>

ServiceQueryNext ==
    \/ \E id \in QueryIds : Get(id)
    \/ \E limit \in Limits : List(limit)
    \/ \E id \in QueryIds, el \in Elements : ApiPropagate(id, el)
    \/ \E t \in Threads, id \in QueryIds, inc \in {50, 60} :
          ApiRiskOrdem(t, id, 500, inc)
    \/ CacheNext

QuerySpec == QueryInit /\ [][ServiceQueryNext]_vars

\* ---- C25: queries leave the store and the cached grid alone ----

\* C25: every step of a query (get, list, propagate, flux, risk), of one that
\* succeeds and of one that fails, leaves the contents of the TLE store as they
\* were, and leaves a flux grid that the cache holds in the cache with the rows
\* it had; the cache never holds rows other than the file's
C25_QueriesReadOnly ==
    [][/\ by_id' = by_id
       /\ flux_cache.loaded =>
              /\ flux_cache'.loaded
              /\ flux_cache'.rows = flux_cache.rows
       /\ flux_cache'.rows = IF flux_cache'.loaded THEN FileRows ELSE <<>>]_vars

\* a risk query has been served from the cached grid for a stored record after
\* a propagate query failed on a record's elements
C25_Witness ==
    /\ by_id # <<>>
    /\ flux_cache.loaded /\ flux_cache.hits > 0
    /\ obs.op = "risk" /\ obs.rec # NotFound
    /\ flux_out.done
    /\ prop_out.done /\ prop_out.raised

====
